---- MODULE Spec2Model ----
(***************************************************************************)
(* Model of the streambuf crate: StreamBufWriter (src/stream_buf_writer.rs) *)
(* and StreamBufReader (src/stream_buf_reader.rs), two bounds-checked       *)
(* cursors over a caller-supplied byte slice, and the From conversion that  *)
(* turns a writer into a reader over the bytes written.                     *)
(*                                                                         *)
(* A behaviour is one caller: it builds a writer over a buffer, calls       *)
(* writer methods, converts the writer into a reader and calls reader       *)
(* methods.  A panic (out-of-range index, or a usize addition that          *)
(* overflows in a build with overflow checks) ends the behaviour.           *)
(*                                                                         *)
(* Representation.  A byte is an integer 0..255 and a u16 an integer        *)
(* 0..65535.  A u32 is the record [hi, lo] of its two 16-bit halves,        *)
(* because the checker's integers are 32-bit signed.  An f32 is the record  *)
(* [bits |-> u32] of its IEEE-754 bit pattern.  A &str is the sequence of   *)
(* its UTF-8 bytes.  usize is UsizeBits wide; Rust slices hold at most      *)
(* isize::MAX bytes.  Rust index i of a slice is index i + 1 of a sequence. *)
(***************************************************************************)
EXTENDS Integers, Sequences, FiniteSets, TLC

VARIABLES
    mode,             \* "writer": the StreamBufWriter is alive; "reader": it was converted
    wpos,             \* StreamBufWriter::pos
    wbuf,             \* StreamBufWriter::buf (empty once the writer has been consumed)
    rpos,             \* StreamBufReader::pos
    rbuf,             \* StreamBufReader::buf
    overflow_checks,  \* build profile: TRUE = usize overflow panics, FALSE = it wraps
    panicked,         \* a panic has ended the program
    last_op,          \* the last call: the method called,
    last_arg,         \* its argument,
    last_ret,         \* <<value returned>>, or <<>> when it returned () or panicked
    replay            \* values written since new() by write_u8/u16/u32(_big_endian) only, and how many were read back

\* last_op comes early so that two states are told apart by the method called before
\* the arguments and results of different methods, which differ in type, are compared
vars == <<mode, last_op, overflow_checks, wpos, wbuf, rpos, rbuf, panicked, last_arg, last_ret, replay>>

last == [op |-> last_op, arg |-> last_arg, ret |-> last_ret]

(***************************************************************************)
(* Bounds                                                                   *)
(***************************************************************************)
UsizeBits == 4
MaxCap == 4

RECURSIVE Pow2(_)
Pow2(n) == IF n = 0 THEN 1 ELSE 2 * Pow2(n - 1)

UsizeModulus == Pow2(UsizeBits)
UsizeMax == UsizeModulus - 1
IsizeMax == Pow2(UsizeBits - 1) - 1

Caps == 0 .. (IF MaxCap < IsizeMax THEN MaxCap ELSE IsizeMax)

U8Vals == {0, 1, 255}
U16Vals == {0, 511, 65535}
U32Vals == {[hi |-> 0, lo |-> 0], [hi |-> 511, lo |-> 1], [hi |-> 65535, lo |-> 65535]}
F32Vals == {[bits |-> [hi |-> 0, lo |-> 0]], [bits |-> [hi |-> 256, lo |-> 65281]]}
InitBytes == {0, 255}
FillBytes == {255}
Lens == {0, 1, 2, UsizeMax}
Slices == {<<>>, <<1>>, <<255, 1, 0>>}
Texts == {<<>>, <<1, 1>>}
DstLens == {0, 1, 3}
Indexes == {0, 1, MaxCap}
\* the data a reader is constructed over directly: longer than any writer buffer
ReaderData == {[i \in 1 .. MaxCap + 2 |-> <<1, 255, 0, 1>>[((i - 1) % 4) + 1]]}

(***************************************************************************)
(* Integer primitives                                                       *)
(***************************************************************************)
\* usize + usize: the wrapped sum, and whether this build panics on it
usize_add(a, b) ==
    [val |-> (a + b) % UsizeModulus,
     panic |-> overflow_checks /\ a + b > UsizeMax]

usize_min(a, b) == IF a <= b THEN a ELSE b

u16_to_le_bytes(v) == <<v % 256, v \div 256>>

u16_to_be_bytes(v) == <<v \div 256, v % 256>>

u32_to_le_bytes(v) == <<v.lo % 256, v.lo \div 256, v.hi % 256, v.hi \div 256>>

u32_to_be_bytes(v) == <<v.hi \div 256, v.hi % 256, v.lo \div 256, v.lo % 256>>

f32_to_le_bytes(x) == u32_to_le_bytes(x.bits)

u16_from_le_bytes(b) == b[2] * 256 + b[1]

u16_from_be_bytes(b) == b[1] * 256 + b[2]

u32_from_le_bytes(b) == [hi |-> b[4] * 256 + b[3], lo |-> b[2] * 256 + b[1]]

u32_from_be_bytes(b) == [hi |-> b[1] * 256 + b[2], lo |-> b[3] * 256 + b[4]]

f32_from_bits(bits) == [bits |-> bits]

U32Zero == [hi |-> 0, lo |-> 0]
F32Zero == [bits |-> U32Zero]

(***************************************************************************)
(* Outcome of a call on a cursor self = [pos, buf]: the cursor after the    *)
(* call, the value returned and whether the call panicked.                  *)
(***************************************************************************)
Returns(self, r) == [pos |-> self.pos, buf |-> self.buf, ret |-> <<r>>, trap |-> FALSE]

\* a call that returns ()
Done(self) == [pos |-> self.pos, buf |-> self.buf, ret |-> <<>>, trap |-> FALSE]

Panics(self) == [pos |-> self.pos, buf |-> self.buf, ret |-> <<>>, trap |-> TRUE]

Value(o) == o.ret[1]

Cursor(o) == [pos |-> o.pos, buf |-> o.buf]

\* buf[index] = value
slice_set(buf, index, value) == [buf EXCEPT ![index + 1] = value]

\* buf[from..to].copy_from_slice(src), to - from = src.len()
copy_from_slice(buf, from, src) ==
    [i \in 1 .. Len(buf) |-> IF i > from /\ i <= from + Len(src) THEN src[i - from] ELSE buf[i]]

\* buf[from..to].fill(data)
slice_fill(buf, from, to, data) ==
    [i \in 1 .. Len(buf) |-> IF i > from /\ i <= to THEN data ELSE buf[i]]

\* &buf[..to]
slice_to(buf, to) == SubSeq(buf, 1, to)

(***************************************************************************)
(* StreamBufWriter                                                          *)
(***************************************************************************)
W_new(buf) == [pos |-> 0, buf |-> buf]

W_get_data(self) == self.buf

W_get_data_slice(self) == slice_to(self.buf, self.pos)

W_pos(self) == self.pos

W_get_ref(self) == slice_to(self.buf, self.pos)

W_is_empty(self) == self.pos = 0

W_is_full(self) == self.pos >= Len(self.buf)

W_bytes_remaining(self) ==
    LET rem == Len(self.buf) - self.pos
    IN  IF rem <= 0 THEN 0 ELSE rem

W_bytes_written(self) == self.pos

W_is_available(self, size) ==
    LET sum == usize_add(self.pos, size)
    IN  IF sum.panic THEN Panics(self)
        ELSE IF sum.val > Len(self.buf) THEN Returns(self, FALSE)
        ELSE Returns(self, TRUE)

\* W_reset clearing the buffer as well
W_reset_zeroing(self) == Done([pos |-> 0, buf |-> [i \in 1 .. Len(self.buf) |-> 0]])

W_reset(self) == Done([self EXCEPT !.pos = 0])

\* W_advance without the clamp to buf.len()
W_advance_unclamped(self, n) ==
    LET sum == usize_add(self.pos, n)
    IN  IF sum.panic THEN Panics(self)
        ELSE Done([self EXCEPT !.pos = sum.val])

W_advance(self, n) ==
    LET sum == usize_add(self.pos, n)
    IN  IF sum.panic THEN Panics(self)
        ELSE Done([self EXCEPT !.pos = usize_min(sum.val, Len(self.buf))])

W_at(self, index) ==
    IF index >= Len(self.buf) THEN Panics(self) ELSE Returns(self, self.buf[index + 1])

\* impl Index<usize> for StreamBufWriter
W_index(self, index) ==
    IF index >= Len(self.buf) THEN Panics(self) ELSE Returns(self, self.buf[index + 1])

\* W_index_mut moving the position past the byte it sets
W_index_mut_advancing(self, index, value) ==
    IF index >= Len(self.buf) THEN Panics(self)
    ELSE Done([pos |-> (IF index + 1 > self.pos THEN index + 1 ELSE self.pos),
               buf |-> slice_set(self.buf, index, value)])

W_index_mut(self, index, value) ==
    IF index >= Len(self.buf) THEN Panics(self)
    ELSE Done([self EXCEPT !.buf = slice_set(self.buf, index, value)])

\* self.buf[self.pos] = byte; self.pos += 1, for each byte in turn
RECURSIVE W_for_each_byte(_, _)
W_for_each_byte(o, bytes) ==
    IF bytes = <<>> \/ o.trap THEN o
    ELSE IF o.pos >= Len(o.buf) THEN Panics(o)
    ELSE W_for_each_byte([o EXCEPT !.buf = slice_set(o.buf, o.pos, Head(bytes)),
                                   !.pos = o.pos + 1],
                         Tail(bytes))

W_write_u8(self, value) ==
    LET avail == W_is_available(self, 1)
    IN  IF avail.trap THEN avail
        ELSE IF Value(avail)
             THEN IF self.pos >= Len(self.buf) THEN Panics(self)
                  ELSE Done([self EXCEPT !.buf = slice_set(self.buf, self.pos, value),
                                         !.pos = self.pos + 1])
             ELSE Done(self)

\* W_write_u16 advancing by one byte instead of two
W_write_u16_short_advance(self, value) ==
    LET avail == W_is_available(self, 2)
        bytes == u16_to_le_bytes(value)
    IN  IF avail.trap THEN avail
        ELSE IF Value(avail)
             THEN Done([self EXCEPT
                          !.buf = slice_set(slice_set(self.buf, self.pos, bytes[1]),
                                            self.pos + 1, bytes[2]),
                          !.pos = self.pos + 1])
             ELSE Done(self)

W_write_u16(self, value) ==
    LET avail == W_is_available(self, 2)
        bytes == u16_to_le_bytes(value)
    IN  IF avail.trap THEN avail
        ELSE IF Value(avail)
             THEN IF self.pos + 1 >= Len(self.buf) THEN Panics(self)
                  ELSE Done([self EXCEPT
                               !.buf = slice_set(slice_set(self.buf, self.pos, bytes[1]),
                                                 self.pos + 1, bytes[2]),
                               !.pos = self.pos + 2])
             ELSE Done(self)

\* W_write_u32 without the is_available check
W_write_u32_unchecked(self, value) ==
    W_for_each_byte(Done(self), u32_to_le_bytes(value))

W_write_u32(self, value) ==
    LET avail == W_is_available(self, 4)
    IN  IF avail.trap THEN avail
        ELSE IF Value(avail) THEN W_for_each_byte(Done(self), u32_to_le_bytes(value))
             ELSE Done(self)

W_write_u16_big_endian(self, value) ==
    LET avail == W_is_available(self, 2)
    IN  IF avail.trap THEN avail
        ELSE IF Value(avail) THEN W_for_each_byte(Done(self), u16_to_be_bytes(value))
             ELSE Done(self)

\* W_write_u32_big_endian storing the little-endian bytes
W_write_u32_big_endian_as_le(self, value) ==
    LET avail == W_is_available(self, 4)
    IN  IF avail.trap THEN avail
        ELSE IF Value(avail) THEN W_for_each_byte(Done(self), u32_to_le_bytes(value))
             ELSE Done(self)

W_write_u32_big_endian(self, value) ==
    LET avail == W_is_available(self, 4)
    IN  IF avail.trap THEN avail
        ELSE IF Value(avail) THEN W_for_each_byte(Done(self), u32_to_be_bytes(value))
             ELSE Done(self)

W_write_f32(self, value) ==
    LET avail == W_is_available(self, 4)
    IN  IF avail.trap THEN avail
        ELSE IF Value(avail) THEN W_for_each_byte(Done(self), f32_to_le_bytes(value))
             ELSE Done(self)

\* W_fill_without_advancing leaving the position after the bytes it filled
W_fill_without_advancing_moving(self, data, len) ==
    LET sum == usize_add(self.pos, len)
    IN  IF sum.panic THEN Panics(self)
        ELSE IF sum.val > Len(self.buf) THEN Returns(self, FALSE)
        ELSE IF self.pos > sum.val THEN Panics(self)
        ELSE Returns([pos |-> sum.val, buf |-> slice_fill(self.buf, self.pos, sum.val, data)], TRUE)

W_fill_without_advancing(self, data, len) ==
    LET sum == usize_add(self.pos, len)
    IN  IF sum.panic THEN Panics(self)
        ELSE IF sum.val > Len(self.buf) THEN Returns(self, FALSE)
        \* self.buf[self.pos..self.pos + len]: a slice whose start exceeds its end panics
        ELSE IF self.pos > sum.val THEN Panics(self)
        ELSE Returns([self EXCEPT !.buf = slice_fill(self.buf, self.pos, sum.val, data)], TRUE)

W_fill(self, data, len) ==
    LET filled == W_fill_without_advancing(self, data, len)
    IN  IF filled.trap THEN filled
        ELSE IF Value(filled) THEN Done([Cursor(filled) EXCEPT !.pos = filled.pos + len])
             ELSE Done(Cursor(filled))

W_write(self, src) ==
    LET write_size == Len(src)
        avail == W_is_available(self, write_size)
    IN  IF avail.trap THEN avail
        ELSE IF Value(avail)
             THEN IF self.pos + write_size > Len(self.buf) THEN Panics(self)
                  ELSE Returns([self EXCEPT !.buf = copy_from_slice(self.buf, self.pos, src),
                                            !.pos = self.pos + write_size], write_size)
             ELSE Returns(self, 0)

\* W_write_str storing a 0 after the text when a byte is left for it
W_write_str_terminated(self, src) ==
    LET write_size == Len(src)
        avail == W_is_available(self, write_size)
    IN  IF avail.trap THEN avail
        ELSE IF Value(avail)
             THEN Returns([pos |-> self.pos + write_size,
                           buf |-> [i \in 1 .. Len(self.buf) |->
                                       IF i > self.pos /\ i <= self.pos + write_size
                                       THEN src[i - self.pos]
                                       ELSE IF i = self.pos + write_size + 1 THEN 0
                                       ELSE self.buf[i]]], write_size)
             ELSE Returns(self, 0)

\* src.as_bytes().try_into() to &[u8] is the reflexive conversion and cannot fail
W_write_str(self, src) ==
    LET write_size == Len(src)
        avail == W_is_available(self, write_size)
    IN  IF avail.trap THEN avail
        ELSE IF Value(avail)
             THEN IF self.pos + write_size > Len(self.buf) THEN Panics(self)
                  ELSE Returns([self EXCEPT !.buf = copy_from_slice(self.buf, self.pos, src),
                                            !.pos = self.pos + write_size], write_size)
             ELSE Returns(self, 0)

\* W_write_str_with_zero_terminator checking the text length without the terminator
W_write_str_with_zero_terminator_text_check(self, src) ==
    LET write_size == Len(src) + 1
        avail == W_is_available(self, Len(src))
    IN  IF avail.trap THEN avail
        ELSE IF Value(avail)
             THEN LET s1 == W_write_str(self, src)
                      s2 == W_write_u8(Cursor(s1), 0)
                  IN  IF s1.trap THEN s1
                      ELSE IF s2.trap THEN s2
                      ELSE Returns(Cursor(s2), write_size)
             ELSE Returns(self, 0)

W_write_str_with_zero_terminator(self, src) ==
    LET write_size == Len(src) + 1
        avail == W_is_available(self, write_size)
    IN  IF avail.trap THEN avail
        ELSE IF Value(avail)
             THEN LET s1 == W_write_str(self, src)
                      s2 == W_write_u8(Cursor(s1), 0)
                  IN  IF s1.trap THEN s1
                      ELSE IF s2.trap THEN s2
                      ELSE Returns(Cursor(s2), write_size)
             ELSE Returns(self, 0)

(***************************************************************************)
(* StreamBufReader                                                          *)
(***************************************************************************)
R_new(buf) == [pos |-> 0, buf |-> buf]

R_get_data(self) == self.buf

R_get_data_slice(self) == slice_to(self.buf, self.pos)

R_pos(self) == self.pos

R_get_ref(self) == slice_to(self.buf, self.pos)

R_is_empty(self) == self.pos = 0

R_is_full(self) == self.pos >= Len(self.buf)

R_bytes_remaining(self) ==
    LET rem == Len(self.buf) - self.pos
    IN  IF rem <= 0 THEN 0 ELSE rem

R_bytes_read(self) == self.pos

R_is_remaining(self, size) ==
    LET sum == usize_add(self.pos, size)
    IN  IF sum.panic THEN Panics(self)
        ELSE IF sum.val > Len(self.buf) THEN Returns(self, FALSE)
        ELSE Returns(self, TRUE)

R_reset(self) == Done([self EXCEPT !.pos = 0])

R_advance(self, n) ==
    LET sum == usize_add(self.pos, n)
    IN  IF sum.panic THEN Panics(self)
        ELSE Done([self EXCEPT !.pos = usize_min(sum.val, Len(self.buf))])

\* R_at returning 0 for an index outside the span
R_at_silent(self, index) ==
    IF index >= Len(self.buf) THEN Returns(self, 0) ELSE Returns(self, self.buf[index + 1])

R_at(self, index) ==
    IF index >= Len(self.buf) THEN Panics(self) ELSE Returns(self, self.buf[index + 1])

\* impl Index<usize> for StreamBufReader
R_index(self, index) ==
    IF index >= Len(self.buf) THEN Panics(self) ELSE Returns(self, self.buf[index + 1])

\* [self.buf[pos], ..., self.buf[pos + n - 1]], each index bounds-checked
R_bytes_at(self, pos, n) == [i \in 1 .. n |-> self.buf[pos + i]]

\* R_read_u8 indexing with the position after advance() instead of the saved one
R_read_u8_after_advance(self) ==
    LET remaining == R_is_remaining(self, 1)
        advanced == R_advance(self, 1)
    IN  IF remaining.trap THEN remaining
        ELSE IF ~Value(remaining) THEN Returns(self, 0)
        ELSE IF advanced.trap THEN advanced
        ELSE IF advanced.pos >= Len(self.buf) THEN Panics(Cursor(advanced))
        ELSE Returns(Cursor(advanced), self.buf[advanced.pos + 1])

R_read_u8(self) ==
    LET remaining == R_is_remaining(self, 1)
        pos == self.pos
        advanced == R_advance(self, 1)
    IN  IF remaining.trap THEN remaining
        ELSE IF ~Value(remaining) THEN Returns(self, 0)
        ELSE IF advanced.trap THEN advanced
        ELSE IF pos + 1 > Len(self.buf) THEN Panics(Cursor(advanced))
        ELSE Returns(Cursor(advanced), self.buf[pos + 1])

\* R_read_u16 decoding big-endian
R_read_u16_as_be(self) ==
    LET remaining == R_is_remaining(self, 2)
        pos == self.pos
        advanced == R_advance(self, 2)
    IN  IF remaining.trap THEN remaining
        ELSE IF ~Value(remaining) THEN Returns(self, 0)
        ELSE IF advanced.trap THEN advanced
        ELSE IF pos + 2 > Len(self.buf) THEN Panics(Cursor(advanced))
        ELSE Returns(Cursor(advanced), u16_from_be_bytes(R_bytes_at(self, pos, 2)))

R_read_u16(self) ==
    LET remaining == R_is_remaining(self, 2)
        pos == self.pos
        advanced == R_advance(self, 2)
    IN  IF remaining.trap THEN remaining
        ELSE IF ~Value(remaining) THEN Returns(self, 0)
        ELSE IF advanced.trap THEN advanced
        ELSE IF pos + 2 > Len(self.buf) THEN Panics(Cursor(advanced))
        ELSE Returns(Cursor(advanced), u16_from_le_bytes(R_bytes_at(self, pos, 2)))

\* R_read_u32 advancing before the is_remaining check, so a short read moves the position
R_read_u32_advance_first(self) ==
    LET remaining == R_is_remaining(self, 4)
        advanced == R_advance(self, 4)
    IN  IF remaining.trap THEN remaining
        ELSE IF advanced.trap THEN advanced
        ELSE IF ~Value(remaining) THEN Returns(Cursor(advanced), U32Zero)
        ELSE Returns(Cursor(advanced), u32_from_le_bytes(R_bytes_at(self, self.pos, 4)))

R_read_u32(self) ==
    LET remaining == R_is_remaining(self, 4)
        pos == self.pos
        advanced == R_advance(self, 4)
    IN  IF remaining.trap THEN remaining
        ELSE IF ~Value(remaining) THEN Returns(self, U32Zero)
        ELSE IF advanced.trap THEN advanced
        ELSE IF pos + 4 > Len(self.buf) THEN Panics(Cursor(advanced))
        ELSE Returns(Cursor(advanced), u32_from_le_bytes(R_bytes_at(self, pos, 4)))

R_read_u16_big_endian(self) ==
    LET remaining == R_is_remaining(self, 2)
        pos == self.pos
        advanced == R_advance(self, 2)
    IN  IF remaining.trap THEN remaining
        ELSE IF ~Value(remaining) THEN Returns(self, 0)
        ELSE IF advanced.trap THEN advanced
        ELSE IF pos + 2 > Len(self.buf) THEN Panics(Cursor(advanced))
        ELSE Returns(Cursor(advanced), u16_from_be_bytes(R_bytes_at(self, pos, 2)))

R_read_u32_big_endian(self) ==
    LET remaining == R_is_remaining(self, 4)
        pos == self.pos
        advanced == R_advance(self, 4)
    IN  IF remaining.trap THEN remaining
        ELSE IF ~Value(remaining) THEN Returns(self, U32Zero)
        ELSE IF advanced.trap THEN advanced
        ELSE IF pos + 4 > Len(self.buf) THEN Panics(Cursor(advanced))
        ELSE Returns(Cursor(advanced), u32_from_be_bytes(R_bytes_at(self, pos, 4)))

\* R_read_f32 advancing once itself and once more inside read_u32
R_read_f32_double_advance(self) ==
    LET remaining == R_is_remaining(self, 4)
        bits == R_read_u32(self)
        again == R_advance(Cursor(bits), 4)
    IN  IF remaining.trap THEN remaining
        ELSE IF ~Value(remaining) THEN Returns(self, F32Zero)
        ELSE IF bits.trap THEN bits
        ELSE IF again.trap THEN again
        ELSE Returns(Cursor(again), f32_from_bits(Value(bits)))

R_read_f32(self) ==
    LET remaining == R_is_remaining(self, 4)
        bits == R_read_u32(self)
    IN  IF remaining.trap THEN remaining
        ELSE IF ~Value(remaining) THEN Returns(self, F32Zero)
        ELSE IF bits.trap THEN bits
        ELSE Returns(Cursor(bits), f32_from_bits(Value(bits)))

\* R_read copying the bytes that remain when dst is longer than what remains
R_read_partial(self, dst) ==
    LET read_size == Len(dst)
        remaining == R_is_remaining(self, read_size)
        left == R_bytes_remaining(self)
    IN  IF remaining.trap THEN remaining
        ELSE IF ~Value(remaining)
             THEN Returns(self, [n |-> 0,
                                 dst |-> [i \in 1 .. read_size |->
                                             IF i <= left THEN self.buf[self.pos + i] ELSE dst[i]]])
        ELSE Returns([self EXCEPT !.pos = self.pos + read_size],
                     [n |-> read_size, dst |-> SubSeq(self.buf, self.pos + 1, self.pos + read_size)])

\* returns the count and the caller's dst after the call
R_read(self, dst) ==
    LET read_size == Len(dst)
        remaining == R_is_remaining(self, read_size)
    IN  IF remaining.trap THEN remaining
        ELSE IF ~Value(remaining) THEN Returns(self, [n |-> 0, dst |-> dst])
        ELSE IF self.pos + read_size > Len(self.buf) THEN Panics(self)
        ELSE Returns([self EXCEPT !.pos = self.pos + read_size],
                     [n |-> read_size, dst |-> SubSeq(self.buf, self.pos + 1, self.pos + read_size)])

\* From over the whole buffer instead of the bytes written
From_whole_buffer(sbuf) == R_new(sbuf.buf)

\* impl From<StreamBufWriter> for StreamBufReader
From(sbuf) == R_new(slice_to(sbuf.buf, W_pos(sbuf)))

(***************************************************************************)
(* The caller                                                               *)
(***************************************************************************)
W == [pos |-> wpos, buf |-> wbuf]

R == [pos |-> rpos, buf |-> rbuf]

PlainWrites == {"write_u8", "write_u16", "write_u32", "write_u16_big_endian", "write_u32_big_endian"}

ReadOf(op) ==
    CASE op = "write_u8" -> "read_u8"
      [] op = "write_u16" -> "read_u16"
      [] op = "write_u32" -> "read_u32"
      [] op = "write_u16_big_endian" -> "read_u16_big_endian"
      [] op = "write_u32_big_endian" -> "read_u32_big_endian"

WidthOf(op) ==
    CASE op \in {"write_u8", "read_u8"} -> 1
      [] op \in {"write_u16", "read_u16", "write_u16_big_endian", "read_u16_big_endian"} -> 2
      [] op \in {"write_u32", "read_u32", "write_u32_big_endian", "read_u32_big_endian",
                 "write_f32", "read_f32"} -> 4

Dirty == [ok |-> FALSE, log |-> <<>>, idx |-> 0]

\* the record of plain writes since new(): a plain write that stored its value is
\* appended, one that did not fit leaves the record alone, any other call ends it
WReplay(op, arg, o) ==
    IF replay.ok /\ op \in PlainWrites /\ ~o.trap
    THEN IF o.pos = wpos THEN replay
         ELSE [replay EXCEPT !.log = Append(replay.log, [op |-> op, v |-> arg])]
    ELSE Dirty

\* the reader replays the record while it issues the matching reads in order
RReplay(op) ==
    IF replay.ok /\ replay.idx < Len(replay.log) /\ ReadOf(replay.log[replay.idx + 1].op) = op
    THEN [replay EXCEPT !.idx = replay.idx + 1]
    ELSE Dirty

WCall(op, arg, o) ==
    /\ mode = "writer"
    /\ ~panicked
    /\ wpos' = o.pos
    /\ wbuf' = o.buf
    /\ panicked' = o.trap
    /\ last_op' = op
    /\ last_arg' = arg
    /\ last_ret' = o.ret
    /\ replay' = WReplay(op, arg, o)
    /\ UNCHANGED <<mode, rpos, rbuf, overflow_checks>>

RCall(op, arg, o) ==
    /\ mode = "reader"
    /\ ~panicked
    /\ rpos' = o.pos
    /\ panicked' = o.trap
    /\ last_op' = op
    /\ last_arg' = arg
    /\ last_ret' = o.ret
    /\ replay' = RReplay(op)
    /\ UNCHANGED <<mode, wpos, wbuf, rbuf, overflow_checks>>

\* a writer over a caller's buffer, or a reader constructed directly over caller's data
Init ==
    /\ \/ /\ mode = "writer"
          /\ \E cap \in Caps, b \in InitBytes :
                /\ wbuf = W_new([i \in 1 .. cap |-> b]).buf
                /\ wpos = W_new([i \in 1 .. cap |-> b]).pos
                /\ last_arg = cap
          /\ rpos = 0
          /\ rbuf = <<>>
          /\ replay = [ok |-> TRUE, log |-> <<>>, idx |-> 0]
       \/ /\ mode = "reader"
          /\ \E data \in ReaderData :
                /\ rbuf = R_new(data).buf
                /\ rpos = R_new(data).pos
                /\ last_arg = Len(data)
          /\ wpos = 0
          /\ wbuf = <<>>
          /\ replay = Dirty
    /\ last_op = "new"
    /\ last_ret = <<>>
    /\ overflow_checks \in BOOLEAN
    /\ panicked = FALSE

WriteU8 == \E v \in U8Vals : WCall("write_u8", v, W_write_u8(W, v))

WriteU16 == \E v \in U16Vals : WCall("write_u16", v, W_write_u16(W, v))

WriteU32 == \E v \in U32Vals : WCall("write_u32", v, W_write_u32(W, v))

WriteU16BigEndian == \E v \in U16Vals : WCall("write_u16_big_endian", v, W_write_u16_big_endian(W, v))

WriteU32BigEndian == \E v \in U32Vals : WCall("write_u32_big_endian", v, W_write_u32_big_endian(W, v))

WriteF32 == \E v \in F32Vals : WCall("write_f32", v, W_write_f32(W, v))

FillWithoutAdvancing ==
    \E b \in FillBytes, len \in Lens :
        WCall("fill_without_advancing", [data |-> b, len |-> len], W_fill_without_advancing(W, b, len))

Fill == \E b \in FillBytes, len \in Lens : WCall("fill", [data |-> b, len |-> len], W_fill(W, b, len))

Write == \E src \in Slices : WCall("write", src, W_write(W, src))

WriteStr == \E src \in Texts : WCall("write_str", src, W_write_str(W, src))

WriteStrWithZeroTerminator ==
    \E src \in Texts : WCall("write_str_with_zero_terminator", src, W_write_str_with_zero_terminator(W, src))

WAdvance == \E n \in Lens : WCall("advance", n, W_advance(W, n))

WReset == WCall("reset", "none", W_reset(W))

WIsAvailable == \E n \in Lens : WCall("is_available", n, W_is_available(W, n))

WAt == \E i \in Indexes : WCall("at", i, W_at(W, i))

WIndex == \E i \in Indexes : WCall("index", i, W_index(W, i))

WIndexMut == \E i \in Indexes, v \in FillBytes : WCall("index_mut", [index |-> i, value |-> v], W_index_mut(W, i, v))

Into ==
    /\ mode = "writer"
    /\ ~panicked
    /\ mode' = "reader"
    /\ rpos' = From(W).pos
    /\ rbuf' = From(W).buf
    /\ wpos' = 0
    /\ wbuf' = <<>>
    /\ last_op' = "into"
    /\ last_arg' = [cap |-> Len(wbuf), pos |-> wpos]
    /\ last_ret' = <<>>
    /\ UNCHANGED <<overflow_checks, panicked, replay>>

ReadU8 == RCall("read_u8", "none", R_read_u8(R))

ReadU16 == RCall("read_u16", "none", R_read_u16(R))

ReadU32 == RCall("read_u32", "none", R_read_u32(R))

ReadU16BigEndian == RCall("read_u16_big_endian", "none", R_read_u16_big_endian(R))

ReadU32BigEndian == RCall("read_u32_big_endian", "none", R_read_u32_big_endian(R))

ReadF32 == RCall("read_f32", "none", R_read_f32(R))

Read == \E n \in DstLens : RCall("read", [i \in 1 .. n |-> 9], R_read(R, [i \in 1 .. n |-> 9]))

RAdvance == \E n \in Lens : RCall("advance", n, R_advance(R, n))

RReset == RCall("reset", "none", R_reset(R))

RIsRemaining == \E n \in Lens : RCall("is_remaining", n, R_is_remaining(R, n))

RAt == \E i \in Indexes : RCall("at", i, R_at(R, i))

RIndex == \E i \in Indexes : RCall("index", i, R_index(R, i))

Next ==
    \/ WriteU8
    \/ WriteU16
    \/ WriteU32
    \/ WriteU16BigEndian
    \/ WriteU32BigEndian
    \/ WriteF32
    \/ FillWithoutAdvancing
    \/ Fill
    \/ Write
    \/ WriteStr
    \/ WriteStrWithZeroTerminator
    \/ WAdvance
    \/ WReset
    \/ WIsAvailable
    \/ WAt
    \/ WIndex
    \/ WIndexMut
    \/ Into
    \/ ReadU8
    \/ ReadU16
    \/ ReadU32
    \/ ReadU16BigEndian
    \/ ReadU32BigEndian
    \/ ReadF32
    \/ Read
    \/ RAdvance
    \/ RReset
    \/ RIsRemaining
    \/ RAt
    \/ RIndex

Spec == Init /\ [][Next]_vars

TypeOK ==
    /\ mode \in {"writer", "reader"}
    /\ wpos \in 0 .. UsizeMax
    /\ rpos \in 0 .. UsizeMax
    /\ panicked \in BOOLEAN

(***************************************************************************)
(* Properties                                                               *)
(***************************************************************************)
FixedWrites == PlainWrites \cup {"write_f32"}

FixedReads == {"read_u8", "read_u16", "read_u32", "read_u16_big_endian", "read_u32_big_endian", "read_f32"}

WriterSized == FixedWrites \cup {"write", "write_str", "write_str_with_zero_terminator", "fill"}

ReaderSized == FixedReads \cup {"read"}

\* the number of bytes a call asks for
CallWidth(l) ==
    CASE l.op \in FixedWrites \cup FixedReads -> WidthOf(l.op)
      [] l.op \in {"write", "write_str", "read"} -> Len(l.arg)
      [] l.op = "write_str_with_zero_terminator" -> Len(l.arg) + 1
      [] l.op = "fill" -> l.arg.len

ZeroOf(op) ==
    CASE op \in {"read_u8", "read_u16", "read_u16_big_endian"} -> 0
      [] op \in {"read_u32", "read_u32_big_endian"} -> U32Zero
      [] op = "read_f32" -> F32Zero

WriterStep == mode = "writer" /\ mode' = "writer"

ReaderStep == mode = "reader" /\ mode' = "reader"

\* C1: in every reachable state of the writer and of the reader, 0 <= pos <= buf.len()
C1_PositionInBounds ==
    /\ wpos >= 0 /\ wpos <= Len(wbuf)
    /\ rpos >= 0 /\ rpos <= Len(rbuf)

C1_Witness ==
    /\ mode = "reader" /\ last.op = "advance" /\ last.arg = UsizeMax /\ ~panicked
    /\ Len(rbuf) = MaxCap /\ rpos = Len(rbuf)

\* C2: no call other than reset() leaves the position smaller than it found it
C2_OnlyResetDecreases ==
    [][(mode' = mode /\ last'.op # "reset") => (wpos' >= wpos /\ rpos' >= rpos)]_vars

\* C3: a sized call that fits moves the position forward by exactly its width, and one
\* that does not fit leaves the position where it was
C3_PositionAdvancesByWidth ==
    [][/\ (WriterStep /\ last'.op \in WriterSized) =>
            wpos' = (IF wpos + CallWidth(last') <= Len(wbuf) THEN wpos + CallWidth(last') ELSE wpos)
       /\ (ReaderStep /\ last'.op \in ReaderSized) =>
            rpos' = (IF rpos + CallWidth(last') <= Len(rbuf) THEN rpos + CallWidth(last') ELSE rpos)]_vars

C3_Witness ==
    /\ mode = "writer" /\ replay.ok /\ Len(replay.log) = 2 /\ wpos = 3
    /\ last.op = "write_u16" /\ replay.log[2].op = "write_u16"

\* C4: a reader decode with fewer than its width bytes remaining returns the zero of
\* its type, does not move the position and does not panic
C4_ShortReadReturnsZero ==
    [][(ReaderStep /\ last'.op \in FixedReads /\ rpos + WidthOf(last'.op) > Len(rbuf)) =>
          (rpos' = rpos /\ ~panicked' /\ last'.ret = <<ZeroOf(last'.op)>>)]_vars

C4_Witness ==
    /\ mode = "reader" /\ last.op = "read_u32" /\ Len(rbuf) = 3 /\ rpos = 2 /\ last.ret = <<U32Zero>>

\* C5: a writer encode with fewer than its width bytes available changes neither a
\* byte of the buffer nor the position
C5_ShortWriteIsNoOp ==
    [][(WriterStep /\ last'.op \in FixedWrites /\ wpos + WidthOf(last'.op) > Len(wbuf)) =>
          (wbuf' = wbuf /\ wpos' = wpos /\ ~panicked')]_vars

C5_Witness ==
    /\ mode = "writer" /\ last.op = "write_u32" /\ last.arg = [hi |-> 65535, lo |-> 65535]
    /\ Len(wbuf) = 4 /\ wpos = 1 /\ wbuf = <<1, 0, 0, 0>>

\* the reader call that decodes what the plain write op encodes
ReadBack(op, r) ==
    CASE op = "write_u8" -> R_read_u8(r)
      [] op = "write_u16" -> R_read_u16(r)
      [] op = "write_u32" -> R_read_u32(r)
      [] op = "write_u16_big_endian" -> R_read_u16_big_endian(r)
      [] op = "write_u32_big_endian" -> R_read_u32_big_endian(r)

\* byte k of a value, k = 0 the least significant
ByteOfU16(v, k) == IF k = 0 THEN v % 256 ELSE (v \div 256) % 256

ByteOfU32(v, k) == IF k < 2 THEN ByteOfU16(v.lo, k) ELSE ByteOfU16(v.hi, k - 2)

ByteOf(op, v, k) ==
    IF WidthOf(op) = 1 THEN v
    ELSE IF WidthOf(op) = 2 THEN ByteOfU16(v, k)
    ELSE ByteOfU32(v, k)

BigEndianOps == {"write_u16_big_endian", "write_u32_big_endian", "read_u16_big_endian", "read_u32_big_endian"}

\* where byte k of the value lies within the w bytes of the encoding
Offset(op, k) == IF op \in BigEndianOps THEN WidthOf(op) - 1 - k ELSE k

\* C6: after a plain write of v that fits, the writer converted into a reader and
\* advanced to the position of the write reads back exactly v with the matching read
C6_RoundTrip ==
    [][(WriterStep /\ last'.op \in PlainWrites /\ wpos + WidthOf(last'.op) <= Len(wbuf)) =>
          \A reader \in {R_advance(From([pos |-> wpos', buf |-> wbuf']), wpos)} :
              /\ reader.pos = wpos
              /\ \A back \in {ReadBack(last'.op, Cursor(reader))} :
                     ~back.trap /\ back.ret = <<last'.arg>>]_vars

C6_Witness ==
    /\ mode = "writer" /\ replay.ok /\ Len(replay.log) = 1 /\ wpos = 4
    /\ last.op = "write_u32_big_endian" /\ last.arg = [hi |-> 511, lo |-> 1]
    /\ replay.log[1] = [op |-> "write_u32_big_endian", v |-> [hi |-> 511, lo |-> 1]]

\* the literal byte sequences and values of the tests and of the doc comments
C7_Examples ==
    /\ R_read_u16([pos |-> 1, buf |-> <<10, 27, 44, 61, 78, 95, 96>>]).ret = <<11291>>
    /\ R_read_u32([pos |-> 3, buf |-> <<10, 27, 44, 61, 78, 95, 96>>]).ret = <<[hi |-> 24671, lo |-> 20029]>>
    /\ R_read_u32_big_endian([pos |-> 0, buf |-> <<10, 27, 44, 61>>]).ret = <<[hi |-> 2587, lo |-> 11325]>>
    /\ W_write_u16([pos |-> 0, buf |-> <<255, 255>>], 43981).buf = <<205, 171>>
    /\ W_write_u32([pos |-> 0, buf |-> <<0, 0, 0, 0>>], [hi |-> 2587, lo |-> 11325]).buf = <<61, 44, 27, 10>>

\* C7: a plain write that fits stores byte k of the value at buf[pos + k] (little-endian)
\* or at buf[pos + width - 1 - k] (big-endian), and a read that fits returns the value
\* whose byte k is the byte found there; the literal examples of the tests hold
\* (the examples do not depend on the step; they are evaluated on the steps that leave new())
C7_ByteLayout ==
    [][/\ (last.op = "new" => C7_Examples)
       /\ (WriterStep /\ last'.op \in PlainWrites /\ wpos + WidthOf(last'.op) <= Len(wbuf)) =>
             \A k \in 0 .. WidthOf(last'.op) - 1 :
                 wbuf'[wpos + Offset(last'.op, k) + 1] = ByteOf(last'.op, last'.arg, k)
       /\ (ReaderStep /\ last'.op \in FixedReads \ {"read_f32"} /\ rpos + WidthOf(last'.op) <= Len(rbuf)) =>
             /\ Len(last'.ret) = 1
             /\ \A k \in 0 .. WidthOf(last'.op) - 1 :
                   ByteOf(last'.op, last'.ret[1], k) = rbuf[rpos + Offset(last'.op, k) + 1]]_vars

C7_Witness ==
    /\ mode = "reader" /\ last.op = "read_u16" /\ last.ret = <<511>>
    /\ rpos = 3 /\ rbuf[2] = 255 /\ rbuf[3] = 1

RECURSIVE SumWidths(_, _)
SumWidths(log, n) == IF n = 0 THEN 0 ELSE SumWidths(log, n - 1) + WidthOf(log[n].op)

\* C8: when a fresh writer has made only plain writes and the reader made from it has
\* issued only the matching reads in order, the last read returned the value of the
\* write it matches, bytes_read is the total width replayed so far, and after the last
\* one bytes_remaining() is 0
C8_OrderedReplay ==
    (mode = "reader" /\ replay.ok) =>
        /\ Len(rbuf) = SumWidths(replay.log, Len(replay.log))
        /\ R_bytes_read(R) = SumWidths(replay.log, replay.idx)
        /\ ~panicked
        /\ replay.idx > 0 =>
              /\ last.op = ReadOf(replay.log[replay.idx].op)
              /\ last.ret = <<replay.log[replay.idx].v>>
        /\ replay.idx = Len(replay.log) => R_bytes_remaining(R) = 0

C8_Witness ==
    /\ mode = "reader" /\ replay.ok /\ Len(replay.log) = 3 /\ replay.idx = 3
    /\ replay.log[1].op = "write_u8" /\ replay.log[2] = [op |-> "write_u16_big_endian", v |-> 511]
    /\ last.op = "read_u8" /\ last.ret = <<255>>

\* C9: the reader made from a writer at position p starts at position 0 over exactly
\* the writer's buf[0..p], so bytes_remaining() is p whatever the capacity
C9_ConversionScope ==
    [][(mode = "writer" /\ mode' = "reader") =>
          /\ rpos' = 0
          /\ Len(rbuf') = wpos
          /\ \A i \in 1 .. wpos : rbuf'[i] = wbuf[i]
          /\ R_bytes_remaining([pos |-> rpos', buf |-> rbuf']) = wpos]_vars

C9_Witness ==
    /\ mode = "reader" /\ last.op = "into" /\ last.arg = [cap |-> 4, pos |-> 1]
    /\ rpos = 0 /\ rbuf = <<255>>

\* C10: write_str_with_zero_terminator(text) writes the text and one zero byte, advances
\* by text.len() + 1 and returns text.len() + 1 when pos + text.len() + 1 <= buf.len();
\* otherwise it returns 0 and changes neither the buffer nor the position
C10_ZeroTerminatedAllOrNothing ==
    [][(WriterStep /\ last'.op = "write_str_with_zero_terminator") =>
          LET text == last'.arg
              n == Len(text) + 1
          IN  IF wpos + n <= Len(wbuf)
              THEN /\ last'.ret = <<n>>
                   /\ wpos' = wpos + n
                   /\ Len(wbuf') = Len(wbuf)
                   /\ \A i \in 1 .. Len(wbuf) :
                         wbuf'[i] = (IF i <= wpos \/ i > wpos + n THEN wbuf[i]
                                     ELSE IF i = wpos + n THEN 0
                                     ELSE text[i - wpos])
              ELSE /\ last'.ret = <<0>>
                   /\ wbuf' = wbuf
                   /\ wpos' = wpos]_vars

C10_Witness ==
    /\ mode = "writer" /\ last.op = "write_str_with_zero_terminator" /\ last.arg = <<1, 1>>
    /\ last.ret = <<0>> /\ Len(wbuf) = 4 /\ wpos = 2

\* C11: read(dst), write(src) and write_str(text) of length n copy exactly n bytes from or
\* to buf[pos..pos+n], advance by n and return n when pos + n <= buf.len(); otherwise they
\* return 0 and leave the position and the destination (dst, or the buffer) untouched
C11_BulkCopyAllOrNothing ==
    [][/\ (ReaderStep /\ last'.op = "read") =>
             LET dst == last'.arg
                 n == Len(dst)
             IN  IF rpos + n <= Len(rbuf)
                 THEN /\ last'.ret = <<[n |-> n, dst |-> [i \in 1 .. n |-> rbuf[rpos + i]]]>>
                      /\ rpos' = rpos + n
                      /\ rbuf' = rbuf
                 ELSE /\ last'.ret = <<[n |-> 0, dst |-> dst]>>
                      /\ rpos' = rpos
                      /\ rbuf' = rbuf
       /\ (WriterStep /\ last'.op \in {"write", "write_str"}) =>
             LET src == last'.arg
                 n == Len(src)
             IN  IF wpos + n <= Len(wbuf)
                 THEN /\ last'.ret = <<n>>
                      /\ wpos' = wpos + n
                      /\ Len(wbuf') = Len(wbuf)
                      /\ \A i \in 1 .. n : wbuf'[wpos + i] = src[i]
                 ELSE /\ last'.ret = <<0>>
                      /\ wpos' = wpos
                      /\ wbuf' = wbuf]_vars

C11_Witness ==
    /\ mode = "reader" /\ last.op = "read" /\ Len(last.arg) = 3
    /\ Len(rbuf) = 2 /\ rpos = 1 /\ ~panicked
    /\ last.ret = <<[n |-> 0, dst |-> <<9, 9, 9>>]>>

\* C12: reset() leaves pos = 0, is_empty() true and bytes_remaining() = buf.len(), changes
\* no byte of the buffer, and a second reset() changes nothing more
C12_Reset ==
    [][/\ (WriterStep /\ last'.op = "reset") =>
             /\ wpos' = 0
             /\ W_is_empty(W')
             /\ W_bytes_remaining(W') = Len(wbuf)
             /\ wbuf' = wbuf
             /\ ~panicked'
             /\ Cursor(W_reset(W')) = W'
       /\ (ReaderStep /\ last'.op = "reset") =>
             /\ rpos' = 0
             /\ R_is_empty(R')
             /\ R_bytes_remaining(R') = Len(rbuf)
             /\ rbuf' = rbuf
             /\ ~panicked'
             /\ Cursor(R_reset(R')) = R']_vars

C12_Witness ==
    /\ mode = "writer" /\ last.op = "reset" /\ wpos = 0 /\ wbuf = <<1, 255, 0, 1>>

\* C13: whenever is_available(n) or is_remaining(n) returns, it returns TRUE exactly when
\* the sum pos + n over the integers is at most buf.len()
C13_CapacityPredicatesExact ==
    [][/\ (WriterStep /\ last'.op = "is_available" /\ ~panicked') =>
             last'.ret = <<wpos + last'.arg <= Len(wbuf)>>
       /\ (ReaderStep /\ last'.op = "is_remaining" /\ ~panicked') =>
             last'.ret = <<rpos + last'.arg <= Len(rbuf)>>]_vars

\* C14: advance(n) never panics, sets the position to min(pos + n, buf.len()) computed
\* over the integers, and does not modify the buffer
C14_AdvanceClamps ==
    [][/\ (WriterStep /\ last'.op = "advance") =>
             /\ ~panicked'
             /\ wpos' = (IF wpos + last'.arg <= Len(wbuf) THEN wpos + last'.arg ELSE Len(wbuf))
             /\ wbuf' = wbuf
       /\ (ReaderStep /\ last'.op = "advance") =>
             /\ ~panicked'
             /\ rpos' = (IF rpos + last'.arg <= Len(rbuf) THEN rpos + last'.arg ELSE Len(rbuf))
             /\ rbuf' = rbuf]_vars

IndexedOps == {"at", "index", "index_mut"}

\* the writes that store a value, a slice or a text
StoringWrites == FixedWrites \cup {"write", "write_str", "write_str_with_zero_terminator"}

\* C16: no call other than indexed access panics, in any state and for any argument
C16_OnlyIndexedAccessTraps ==
    [][last'.op \notin IndexedOps => ~panicked']_vars

\* C17: a write of non-zero width w succeeds exactly when w <= bytes_remaining(); on a
\* full writer every write or fill of non-zero width leaves position, bytes_written()
\* and buffer unchanged; and a full writer stays full until reset() is called
C17_ExactCapacityBoundary ==
    [][WriterStep =>
          /\ (last'.op \in WriterSized /\ CallWidth(last') > 0) =>
                ((wpos' = wpos + CallWidth(last')) <=> (CallWidth(last') <= W_bytes_remaining(W)))
          /\ (W_is_full(W) /\ last'.op \in WriterSized /\ CallWidth(last') > 0) =>
                (wpos' = wpos /\ wbuf' = wbuf /\ W_bytes_written(W') = W_bytes_written(W))
          /\ (W_is_full(W) /\ last'.op # "reset") => W_is_full(W')]_vars

\* C18: fill_without_advancing(b, len) returns TRUE exactly when pos + len <= buf.len();
\* then buf[pos..pos+len] holds b, the other bytes and the position are unchanged;
\* when it does not fit it returns FALSE and changes nothing. fill(b, len) has the same
\* effect on the buffer, advances by len when it fits and is a no-op otherwise
C18_Fill ==
    [][(WriterStep /\ last'.op \in {"fill_without_advancing", "fill"}) =>
          LET len == last'.arg.len
              b == last'.arg.data
              advancing == last'.op = "fill"
          IN  IF wpos + len <= Len(wbuf)
              THEN /\ ~panicked'
                   /\ last'.ret = (IF advancing THEN <<>> ELSE <<TRUE>>)
                   /\ wbuf' = [i \in 1 .. Len(wbuf) |->
                                  IF i > wpos /\ i <= wpos + len THEN b ELSE wbuf[i]]
                   /\ wpos' = (IF advancing THEN wpos + len ELSE wpos)
              ELSE /\ ~panicked'
                   /\ last'.ret = (IF advancing THEN <<>> ELSE <<FALSE>>)
                   /\ wbuf' = wbuf
                   /\ wpos' = wpos]_vars

\* C19: a successful write of width w at position p changes no byte of the buffer at an
\* index below p or at or above p + w
C19_WriteFrame ==
    [][(WriterStep /\ last'.op \in StoringWrites /\ wpos + CallWidth(last') <= Len(wbuf)) =>
          /\ Len(wbuf') = Len(wbuf)
          /\ \A i \in 1 .. Len(wbuf) :
                (i <= wpos \/ i > wpos + CallWidth(last')) => wbuf'[i] = wbuf[i]]_vars

C19_Witness ==
    /\ mode = "writer" /\ last.op = "write_str" /\ last.arg = <<1, 1>> /\ last.ret = <<2>>
    /\ wpos = 2 /\ wbuf = <<1, 1, 255, 255>>

\* C20: in every reachable state the queries agree with each other: bytes_remaining() is
\* buf.len() - pos, bytes_written()/bytes_read() is pos, is_empty() iff pos = 0, is_full()
\* iff bytes_remaining() = 0, is_available(n)/is_remaining(n) iff n <= bytes_remaining(),
\* and get_data_slice()/get_ref() is buf[0..pos]
C20_QueriesConsistent ==
    /\ mode = "writer" =>
          /\ W_bytes_remaining(W) = Len(wbuf) - wpos
          /\ W_bytes_remaining(W) >= 0
          /\ W_bytes_written(W) = W_pos(W)
          /\ W_pos(W) + W_bytes_remaining(W) = Len(W_get_data(W))
          /\ W_is_empty(W) <=> W_pos(W) = 0
          /\ W_is_full(W) <=> W_bytes_remaining(W) = 0
          /\ W_get_data_slice(W) = SubSeq(wbuf, 1, wpos)
          /\ W_get_ref(W) = SubSeq(wbuf, 1, wpos)
          /\ \A n \in Lens : \A o \in {W_is_available(W, n)} :
                ~o.trap => (Value(o) <=> n <= W_bytes_remaining(W))
    /\ mode = "reader" =>
          /\ R_bytes_remaining(R) = Len(rbuf) - rpos
          /\ R_bytes_remaining(R) >= 0
          /\ R_bytes_read(R) = R_pos(R)
          /\ R_pos(R) + R_bytes_remaining(R) = Len(R_get_data(R))
          /\ R_is_empty(R) <=> R_pos(R) = 0
          /\ R_is_full(R) <=> R_bytes_remaining(R) = 0
          /\ R_get_data_slice(R) = SubSeq(rbuf, 1, rpos)
          /\ R_get_ref(R) = SubSeq(rbuf, 1, rpos)
          /\ \A n \in Lens : \A o \in {R_is_remaining(R, n)} :
                ~o.trap => (Value(o) <=> n <= R_bytes_remaining(R))

\* C21: an indexed write with index < buf.len() sets the byte at that index and nothing
\* else: the other bytes, the position, bytes_written() and bytes_remaining() are
\* unchanged wherever the index lies relative to the position, and an indexed read of
\* that index, or a read-back through the converted reader when the index is below the
\* position, returns the value set
C21_IndexedWriteFrame ==
    [][(WriterStep /\ last'.op = "index_mut" /\ last'.arg.index < Len(wbuf)) =>
          \A i \in {last'.arg.index} : \A v \in {last'.arg.value} :
             /\ ~panicked'
             /\ Len(wbuf') = Len(wbuf)
             /\ \A k \in 1 .. Len(wbuf) : wbuf'[k] = (IF k = i + 1 THEN v ELSE wbuf[k])
             /\ wpos' = wpos
             /\ W_bytes_written(W') = W_bytes_written(W)
             /\ W_bytes_remaining(W') = W_bytes_remaining(W)
             /\ W_index(W', i).ret = <<v>>
             /\ W_at(W', i).ret = <<v>>
             /\ i < wpos =>
                   /\ R_index(From(W'), i).ret = <<v>>
                   /\ R_read_u8([From(W') EXCEPT !.pos = i]).ret = <<v>>]_vars

C21_Witness ==
    /\ mode = "writer" /\ last.op = "index_mut" /\ last.arg = [index |-> 1, value |-> 255]
    /\ wpos = 1 /\ wbuf = <<1, 255, 0>> /\ ~panicked

\* the position a writer step leaves when only reset and the successful sized writes
\* count: reset gives 0, a sized write that fits adds its width, any other call adds 0
WrittenTotal ==
    IF last'.op = "reset" THEN 0
    ELSE IF last'.op \in WriterSized /\ wpos + CallWidth(last') <= Len(wbuf)
         THEN wpos + CallWidth(last')
    ELSE wpos

\* C22: after any sequence of writer calls, advance among them, bytes_written() and the
\* length of the converted reader are the total width of the successful
\* write_*/write/write_str/write_str_with_zero_terminator/fill calls since construction
\* or the last reset: every writer step leaves the position at that total, and the
\* conversion yields a reader of that length
C22_ReaderScopedToWrites ==
    [][/\ WriterStep => (wpos' = WrittenTotal /\ W_bytes_written(W') = WrittenTotal)
       /\ (mode = "writer" /\ mode' = "reader") =>
             (Len(rbuf') = W_bytes_written(W) /\ rbuf' = SubSeq(wbuf, 1, wpos) /\ rpos' = 0)]_vars

\* C22 as amended: bytes_written() and the length of the converted reader are the
\* position, which is the total width of the successful sized writes since construction
\* or the last reset plus the net displacement of the advance calls since then; the
\* reader spans buf[0..pos], bytes passed over by advance included
C22_ReaderScopedToPosition ==
    [][/\ (WriterStep /\ last'.op # "advance") =>
             (wpos' = WrittenTotal /\ W_bytes_written(W') = WrittenTotal)
       /\ (WriterStep /\ last'.op = "advance") =>
             (W_bytes_written(W') = wpos' /\ wpos' >= 0 /\ wpos' <= Len(wbuf) /\ wbuf' = wbuf)
       /\ (mode = "writer" /\ mode' = "reader") =>
             (Len(rbuf') = W_bytes_written(W) /\ rbuf' = SubSeq(wbuf, 1, wpos) /\ rpos' = 0)]_vars

C22_Witness ==
    /\ mode = "reader" /\ last.op = "into" /\ last.arg = [cap |-> 4, pos |-> 3]
    /\ rbuf = <<1, 0, 0>> /\ rpos = 0 /\ ~replay.ok

\* C23: write_f32(x) has the effect of write_u32(bits(x)) on buffer and position, the
\* four bytes being the bit pattern in little-endian order; read_f32 returns the float
\* whose bits read_u32 would return from the same state and advances by exactly 4; with
\* fewer than 4 bytes remaining it returns 0.0 and does not move; and reading back at
\* the offset of a write_f32 returns the bit pattern written
C23_F32AsBits ==
    [][/\ (WriterStep /\ last'.op = "write_f32") =>
             \A x \in {last'.arg} : \A o \in {W_write_u32(W, x.bits)} :
                /\ wpos' = o.pos
                /\ wbuf' = o.buf
                /\ panicked' = o.trap
                /\ wpos + 4 <= Len(wbuf) =>
                      /\ wpos' = wpos + 4
                      /\ \A k \in 0 .. 3 : wbuf'[wpos + 1 + k] = ByteOfU32(x.bits, k)
                      /\ \A rd \in {R_read_f32([From(W') EXCEPT !.pos = wpos])} :
                            rd.ret = <<x>> /\ rd.pos = wpos + 4 /\ ~rd.trap
       /\ (ReaderStep /\ last'.op = "read_f32") =>
             IF rpos + 4 <= Len(rbuf)
             THEN \A u \in {R_read_u32(R)} :
                     /\ ~panicked'
                     /\ last'.ret = <<[bits |-> Value(u)]>>
                     /\ Value(u) = [hi |-> rbuf[rpos + 4] * 256 + rbuf[rpos + 3],
                                    lo |-> rbuf[rpos + 2] * 256 + rbuf[rpos + 1]]
                     /\ rpos' = u.pos
                     /\ rpos' = rpos + 4
             ELSE /\ ~panicked'
                  /\ last'.ret = <<F32Zero>>
                  /\ rpos' = rpos]_vars

C23_Witness ==
    /\ mode = "reader" /\ last.op = "read_f32" /\ ~panicked
    /\ last.ret = <<[bits |-> [hi |-> 256, lo |-> 65281]]>>
    /\ rpos = 4 /\ rbuf = <<1, 255, 0, 1, 1, 255>>

====
